---- MODULE Spec2Model ----
(***************************************************************************)
(* update_api_keys.py: a one-shot migration that adds a use_api_key field  *)
(* to the model files under src/lib/models/locked.                         *)
(*                                                                         *)
(* A file text is a sequence of lines.  Each line is a record              *)
(*   [k |-> kind, v |-> value, c |-> trailing comma]                       *)
(* that stands for the characters                                          *)
(*   provider     `  provider: "v",'                                       *)
(*   contentType  `  contentType: "v",'   (or without the comma)           *)
(*   recordId     `  recordId: "v",'                                       *)
(*   use_api_key  `  use_api_key: "v",'                                    *)
(*   comment      `  // v'                                                 *)
(*   call         `  getKey(MODEL_CONFIG.v)'                               *)
(* The regular expressions of the script are modelled by what they match   *)
(* on these lines.                                                         *)
(***************************************************************************)
EXTENDS Integers, Sequences, FiniteSets, TLC

VARIABLES files, pc, todo, run, updated_count, skipped_count, console,
          before, outcome, resolved, writes, visits, prev

vars == <<files, pc, todo, run, updated_count, skipped_count, console,
          before, outcome, resolved, writes, visits, prev>>

(* ------------------------------ bounds --------------------------------- *)
MaxLen == 3
MaxFiles == 3
MaxTokens == 3
MaxRuns == 2

(* ------------------------------ tables --------------------------------- *)
None == "None"

API_KEY_MAPPING ==
    (<<"kie_ai", "image_editing">> :> "KIE_AI_API_KEY_IMAGE_EDITING") @@
    (<<"kie_ai", "image_to_video">> :> "KIE_AI_API_KEY_IMAGE_TO_VIDEO") @@
    (<<"kie_ai", "prompt_to_image">> :> "KIE_AI_API_KEY_PROMPT_TO_IMAGE") @@
    (<<"kie_ai", "prompt_to_video">> :> "KIE_AI_API_KEY_PROMPT_TO_VIDEO") @@
    (<<"kie_ai", "prompt_to_audio">> :> "KIE_AI_API_KEY_PROMPT_TO_AUDIO") @@
    (<<"runware", "prompt_to_image">> :> "RUNWARE_API_KEY_PROMPT_TO_IMAGE") @@
    (<<"runware", "image_editing">> :> "RUNWARE_API_KEY_IMAGE_EDITING") @@
    (<<"runware", "image_to_video">> :> "RUNWARE_API_KEY_IMAGE_TO_VIDEO")

SPECIAL_MODELS ==
    ("8aac94cb-5625-47f4-880c-4f0fd8bd83a1" :> "KIE_AI_API_KEY_VEO3") @@
    ("a5c2ec16-6294-4588-86b6-7b4182601cda" :> "KIE_AI_API_KEY_VEO3") @@
    ("6e8a863e-8630-4eef-bdbb-5b41f4c883f9" :> "KIE_AI_API_KEY_VEO3") @@
    ("f8e9c7a5-9d4b-6f2c-8a1e-5d7b3c9f4a6e" :> "KIE_AI_API_KEY_VEO3") @@
    ("e9c8b7a6-8d5c-4f3e-9a2f-6d8b5c9e4a7f" :> "KIE_AI_API_KEY_VEO3") @@
    ("d7f8c5a3-9b2e-6f4d-8c9a-5e7b3a6d4f8c" :> "KIE_AI_API_KEY_SORA2") @@
    ("c6e5b4a3-5d2f-1c0e-6a9f-3d5b6c7e4a8f" :> "KIE_AI_API_KEY_SORA2") @@
    ("c7e9a5f3-8d4b-6f2c-9a1e-5d8b3c7f4a6e" :> "KIE_AI_API_KEY_NANO_BANANA") @@
    ("d2ffb834-fc59-4c80-bf48-c2cc25281fdd" :> "KIE_AI_API_KEY_SEEDREAM_V4") @@
    ("a6c8e4f7-9d2b-5f3c-8a6e-7d4b9c5f3a8e" :> "KIE_AI_API_KEY_SEEDREAM_V4")

UtilityFiles == {"index", "getKieApiKey", "getRunwareApiKey", "ModelFileGenerator"}

(* ------------------------------- lines --------------------------------- *)
ProviderLine(v) == [k |-> "provider", v |-> v, c |-> TRUE]
ContentTypeLine(v, comma) == [k |-> "contentType", v |-> v, c |-> comma]
RecordIdLine(v) == [k |-> "recordId", v |-> v, c |-> TRUE]
UseApiKeyLine(v) == [k |-> "use_api_key", v |-> v, c |-> TRUE]
CommentLine(v) == [k |-> "comment", v |-> v, c |-> FALSE]
CallLine(v) == [k |-> "call", v |-> v, c |-> FALSE]

\* Values that are not made of word characters only, so that \w+ rejects them.
NonWordValues == {"fal-ai"}
\* Comment texts in which the characters `use_api_key:' occur.
KeyMentions == {"use_api_key: see getKieApiKey"}

\* The lines a single file under test is written with.
Lines ==
    { ProviderLine("kie_ai"), ProviderLine("runware"), ProviderLine("fal-ai"),
      ContentTypeLine("prompt_to_video", TRUE),
      ContentTypeLine("prompt_to_video", FALSE),
      ContentTypeLine("prompt_to_image", TRUE),
      RecordIdLine("8aac94cb-5625-47f4-880c-4f0fd8bd83a1"),
      RecordIdLine("00000000-0000-0000-0000-000000000000"),
      UseApiKeyLine("KIE_AI_API_KEY_VEO3"),
      CommentLine("use_api_key: see getKieApiKey"),
      CallLine("contentType") }

\* The lines the files of a whole tree are written with.
TreeLines ==
    { ProviderLine("kie_ai"), ProviderLine("runware"),
      ContentTypeLine("prompt_to_video", TRUE),
      ContentTypeLine("prompt_to_video", FALSE),
      CommentLine("use_api_key: see getKieApiKey") }

Names == { [stem |-> "Veo3", ext |-> "ts"],
           [stem |-> "index", ext |-> "ts"],
           [stem |-> "README", ext |-> "md"] }

\* The names the files of a whole tree are given: model files first, then
\* utility files (the order of the files does not matter to any of them).
ModelName == [stem |-> "Veo3", ext |-> "ts"]
UtilityName == [stem |-> "index", ext |-> "ts"]

(* ------------------------- process_model_file -------------------------- *)
\* 'use_api_key:' in line
MentionsKey(line) ==
    \/ line.k = "use_api_key"
    \/ line.k = "comment" /\ line.v \in KeyMentions

\* 'use_api_key:' in content
HasUseApiKey(content) == \E i \in 1..Len(content) : MentionsKey(content[i])

\* re.search: the position of the first match, 0 when there is none.
re_search(matches) ==
    IF matches = {} THEN 0
    ELSE CHOOSE i \in matches : \A j \in matches : i <= j

IsProviderDecl(line) == line.k = "provider" /\ line.v \notin NonWordValues
IsContentTypeDecl(line) == line.k = "contentType"
IsRecordIdDecl(line) == line.k = "recordId"
IsContentTypeAnchor(line) == line.k = "contentType" /\ line.c

provider_match(content) ==
    re_search({ i \in 1..Len(content) : IsProviderDecl(content[i]) })
content_type_match(content) ==
    re_search({ i \in 1..Len(content) : IsContentTypeDecl(content[i]) })
record_id_match(content) ==
    re_search({ i \in 1..Len(content) : IsRecordIdDecl(content[i]) })

group1(content, m) == IF m = 0 THEN None ELSE content[m].v

\* ResolveKey with the two branches in the wrong order: the mapping first.
ResolveKey_MappingFirst(provider, content_type, record_id) ==
    IF <<provider, content_type>> \in DOMAIN API_KEY_MAPPING
    THEN API_KEY_MAPPING[<<provider, content_type>>]
    ELSE IF record_id # None /\ record_id \in DOMAIN SPECIAL_MODELS
         THEN SPECIAL_MODELS[record_id]
         ELSE None

\* ResolveKey looking the mapping up with the pair the wrong way round.
ResolveKey_SwappedPair(provider, content_type, record_id) ==
    IF record_id # None /\ record_id \in DOMAIN SPECIAL_MODELS
    THEN SPECIAL_MODELS[record_id]
    ELSE IF <<content_type, provider>> \in DOMAIN API_KEY_MAPPING
         THEN API_KEY_MAPPING[<<content_type, provider>>]
         ELSE None

\* Lines 61-69: the value of use_api_key, None on the else branch.
ResolveKey(provider, content_type, record_id) ==
    IF record_id # None /\ record_id \in DOMAIN SPECIAL_MODELS
    THEN SPECIAL_MODELS[record_id]
    ELSE IF <<provider, content_type>> \in DOMAIN API_KEY_MAPPING
         THEN API_KEY_MAPPING[<<provider, content_type>>]
         ELSE None

\* NoMappingWarning printing the two values under each other's label.
NoMappingWarning_Swapped(provider, content_type) ==
    [kind |-> "warning", a |-> content_type, b |-> provider]

\* Line 68: the console line of the else branch.
NoMappingWarning(provider, content_type) ==
    [kind |-> "warning", a |-> provider, b |-> content_type]

\* Lines 72-76: re.sub over every match of the anchor pattern.
RECURSIVE AddUseApiKey(_, _)
AddUseApiKey(content, use_api_key) ==
    IF content = <<>> THEN <<>>
    ELSE (IF IsContentTypeAnchor(Head(content))
          THEN <<Head(content), UseApiKeyLine(use_api_key)>>
          ELSE <<Head(content)>>)
         \o AddUseApiKey(Tail(content), use_api_key)

\* Lines 79-83: MODEL_CONFIG.contentType) -> MODEL_CONFIG.use_api_key)
UpdateCalls(content) ==
    [i \in 1..Len(content) |->
        IF content[i].k = "call" /\ content[i].v = "contentType"
        THEN CallLine("use_api_key")
        ELSE content[i]]

Skip(content, why, out) ==
    [ret |-> FALSE, wrote |-> FALSE, content |-> content, out |-> out,
     outcome |-> why, use_api_key |-> None]

\* process_model_file with the rewrite and the write done before the lookup,
\* so that a file without a mapping is written as well.
process_model_file_WriteFirst(content) ==
    IF HasUseApiKey(content) THEN Skip(content, "AlreadyAnnotated", <<>>)
    ELSE IF provider_match(content) = 0 \/ content_type_match(content) = 0
    THEN Skip(content, "Ineligible", <<>>)
    ELSE
      LET provider == group1(content, provider_match(content))
          content_type == group1(content, content_type_match(content))
          record_id == group1(content, record_id_match(content))
          use_api_key == ResolveKey(provider, content_type, record_id)
      IN  IF use_api_key = None
          THEN [ret |-> FALSE, wrote |-> TRUE,
                content |-> UpdateCalls(content),
                out |-> <<NoMappingWarning(provider, content_type)>>,
                outcome |-> "Unresolved", use_api_key |-> None]
          ELSE [ret |-> TRUE, wrote |-> TRUE,
                content |-> UpdateCalls(AddUseApiKey(content, use_api_key)),
                out |-> <<>>, outcome |-> "Annotated",
                use_api_key |-> use_api_key]

process_model_file(content) ==
    IF HasUseApiKey(content) THEN Skip(content, "AlreadyAnnotated", <<>>)
    ELSE IF provider_match(content) = 0 \/ content_type_match(content) = 0
    THEN Skip(content, "Ineligible", <<>>)
    ELSE
      LET provider == group1(content, provider_match(content))
          content_type == group1(content, content_type_match(content))
          record_id == group1(content, record_id_match(content))
          use_api_key == ResolveKey(provider, content_type, record_id)
      IN  IF use_api_key = None
          THEN Skip(content, "Unresolved",
                    <<NoMappingWarning(provider, content_type)>>)
          ELSE [ret |-> TRUE, wrote |-> TRUE,
                content |-> UpdateCalls(AddUseApiKey(content, use_api_key)),
                out |-> <<>>, outcome |-> "Annotated",
                use_api_key |-> use_api_key]

(* -------------------------------- main --------------------------------- *)
\* models_dir.rglob('*.ts'): the files with the extension, in tree order.
RECURSIVE rglob(_, _)
rglob(tree, i) ==
    IF i > Len(tree) THEN <<>>
    ELSE (IF tree[i].name.ext = "ts" THEN <<i>> ELSE <<>>) \o rglob(tree, i + 1)

\* IsUtilityFile with index.ts left out of the list.
IsUtilityFile_NoIndex(name) == name.stem \in (UtilityFiles \ {"index"})

IsUtilityFile(name) == name.stem \in UtilityFiles

\* UpdatedLine that prints nothing.
UpdatedLine_Silent(ret, i) == <<>>

\* Line 101: the line main prints for a file that process_model_file updated.
UpdatedLine(ret, i) ==
    IF ret THEN <<[kind |-> "updated", file |-> i, a |-> None, b |-> None]>>
    ELSE <<>>

Tag(out, i) ==
    [j \in 1..Len(out) |->
        [kind |-> out[j].kind, file |-> i, a |-> out[j].a, b |-> out[j].b]]

SummaryLine(u, s) == [kind |-> "summary", file |-> 0, a |-> u, b |-> s]

Contents(tree) == [i \in 1..Len(tree) |-> tree[i].content]

Start(tree) ==
    /\ files = tree
    /\ pc = "walk"
    /\ todo = rglob(tree, 1)
    /\ run = 1
    /\ updated_count = 0
    /\ skipped_count = 0
    /\ console = <<>>
    /\ before = Contents(tree)
    /\ outcome = [i \in 1..Len(tree) |-> "none"]
    /\ resolved = [i \in 1..Len(tree) |-> None]
    /\ writes = [i \in 1..Len(tree) |-> 0]
    /\ visits = [i \in 1..Len(tree) |-> 0]
    /\ prev = [content |-> Contents(tree), updated |-> 0]

\* One file of at most MaxLen lines.
InitOneFile ==
    \E n \in 0..MaxLen : \E text \in [1..n -> Lines] : \E name \in Names :
        Start(<<[name |-> name, content |-> text]>>)

RECURSIVE Sum(_, _)
Sum(f, n) == IF n = 0 THEN 0 ELSE f[n] + Sum(f, n - 1)

\* MaxFiles files that hold at most MaxTokens lines together.
InitTree ==
    \E lens \in [1..MaxFiles -> 0..MaxTokens] :
        /\ Sum(lens, MaxFiles) <= MaxTokens
        /\ \E flat \in [1..Sum(lens, MaxFiles) -> TreeLines] :
           \E models \in 0..MaxFiles :
              Start([i \in 1..MaxFiles |->
                       [name |-> IF i <= models THEN ModelName
                                 ELSE UtilityName,
                        content |-> SubSeq(flat, Sum(lens, i - 1) + 1,
                                           Sum(lens, i))]])

Init == InitOneFile \/ InitTree

\* Lines 97-98: a utility file is passed over.
SkipUtility ==
    /\ pc = "walk"
    /\ todo # <<>>
    /\ IsUtilityFile(files[Head(todo)].name)
    /\ todo' = Tail(todo)
    /\ UNCHANGED <<files, pc, run, updated_count, skipped_count, console,
                   before, outcome, resolved, writes, visits, prev>>

\* Lines 100-104: one model file is processed and counted.
ProcessFile ==
    /\ pc = "walk"
    /\ todo # <<>>
    /\ ~IsUtilityFile(files[Head(todo)].name)
    /\ LET i == Head(todo)
           r == process_model_file(files[i].content)
       IN  /\ files' = IF r.wrote THEN [files EXCEPT ![i].content = r.content]
                       ELSE files
           /\ writes' = [writes EXCEPT ![i] = IF r.wrote THEN @ + 1 ELSE @]
           /\ console' = console \o Tag(r.out, i) \o UpdatedLine(r.ret, i)
           /\ updated_count' = IF r.ret THEN updated_count + 1 ELSE updated_count
           /\ skipped_count' = IF r.ret THEN skipped_count ELSE skipped_count + 1
           /\ outcome' = [outcome EXCEPT ![i] = r.outcome]
           /\ resolved' = [resolved EXCEPT ![i] = r.use_api_key]
           /\ visits' = [visits EXCEPT ![i] = @ + 1]
    /\ todo' = Tail(todo)
    /\ UNCHANGED <<pc, run, before, prev>>

\* Lines 106-108: the summary is printed and main returns.
Summary ==
    /\ pc = "walk"
    /\ todo = <<>>
    /\ console' = Append(console, SummaryLine(updated_count, skipped_count))
    /\ pc' = "done"
    /\ UNCHANGED <<files, todo, run, updated_count, skipped_count,
                   before, outcome, resolved, writes, visits, prev>>

\* The tool is run again on the tree the previous run left.
Rerun ==
    /\ pc = "done"
    /\ run < MaxRuns
    /\ run' = run + 1
    /\ pc' = "walk"
    /\ todo' = rglob(files, 1)
    /\ updated_count' = 0
    /\ skipped_count' = 0
    /\ console' = <<>>
    /\ before' = Contents(files)
    /\ outcome' = [i \in 1..Len(files) |-> "none"]
    /\ resolved' = [i \in 1..Len(files) |-> None]
    /\ writes' = [i \in 1..Len(files) |-> 0]
    /\ visits' = [i \in 1..Len(files) |-> 0]
    /\ prev' = [content |-> Contents(files), updated |-> updated_count]
    /\ UNCHANGED files

Next == SkipUtility \/ ProcessFile \/ Summary \/ Rerun

Spec == Init /\ [][Next]_vars

(* ------------------------- observations on a run ----------------------- *)
FileIds == 1..Len(files)

\* File i has been handed to process_model_file in the current run.
Visited(i) == visits[i] > 0

IsCandidate(name) == name.ext = "ts" /\ name.stem \notin UtilityFiles

ProviderOf(text) == group1(text, provider_match(text))
ContentTypeOf(text) == group1(text, content_type_match(text))
RecordIdOf(text) == group1(text, record_id_match(text))
PairOf(text) == <<ProviderOf(text), ContentTypeOf(text)>>

Eligible(text) == provider_match(text) # 0 /\ content_type_match(text) # 0

HasOverride(text) == RecordIdOf(text) \in DOMAIN SPECIAL_MODELS
HasMapping(text) == PairOf(text) \in DOMAIN API_KEY_MAPPING

\* The text has a use_api_key field declaration.
HasDeclaration(text) == \E j \in 1..Len(text) : text[j].k = "use_api_key"

\* The values of the use_api_key declarations of a text.
DeclaredValues(text) ==
    { text[j].v : j \in { n \in 1..Len(text) : text[n].k = "use_api_key" } }

\* The three ways a candidate is skipped.
SkipCase(text) ==
    \/ HasUseApiKey(text)
    \/ ~Eligible(text)
    \/ ~HasOverride(text) /\ ~HasMapping(text)

UnresolvedCase(text) ==
    /\ ~HasUseApiKey(text)
    /\ Eligible(text)
    /\ ~HasOverride(text) /\ ~HasMapping(text)

LinesOf(i) == SelectSeq(console, LAMBDA l : l.file = i)
WarningsOf(i) == SelectSeq(console, LAMBDA l : l.file = i /\ l.kind = "warning")

InsertAt(text, p, line) ==
    SubSeq(text, 1, p) \o <<line>> \o SubSeq(text, p + 1, Len(text))

(* ------------------------------- claims -------------------------------- *)

\* C1: when the second run of main() has finished, every file has the content
\* the first run left and the second run has counted no file as updated.
C1_SecondRunUpdatesNothing ==
    (run = 2 /\ pc = "done") =>
        /\ Contents(files) = prev.content
        /\ updated_count = 0
        /\ \A i \in FileIds : Visited(i) => outcome[i] # "Annotated"

\* C2: a file that is not annotated, has provider and contentType, and whose
\* recordId is a key of SPECIAL_MODELS gets the value SPECIAL_MODELS[recordId],
\* whatever API_KEY_MAPPING holds for its pair.
C2_OverrideWins ==
    \A i \in FileIds :
        (/\ Visited(i)
         /\ ~HasUseApiKey(before[i])
         /\ Eligible(before[i])
         /\ HasOverride(before[i]))
        => /\ resolved[i] = SPECIAL_MODELS[RecordIdOf(before[i])]
           /\ DeclaredValues(files[i].content)
                 \subseteq {SPECIAL_MODELS[RecordIdOf(before[i])]}

C2_Witness ==
    \E i \in FileIds :
        /\ Visited(i)
        /\ ~HasUseApiKey(before[i])
        /\ Eligible(before[i])
        /\ HasOverride(before[i])
        /\ HasMapping(before[i])
        /\ API_KEY_MAPPING[PairOf(before[i])]
              # SPECIAL_MODELS[RecordIdOf(before[i])]
        /\ DeclaredValues(files[i].content)
              = {SPECIAL_MODELS[RecordIdOf(before[i])]}

\* C3: a file that is not annotated, whose recordId is absent or not a key of
\* SPECIAL_MODELS, and whose (provider, contentType) pair is a key of
\* API_KEY_MAPPING gets the value API_KEY_MAPPING[(provider, contentType)].
C3_MappingFallback ==
    \A i \in FileIds :
        (/\ Visited(i)
         /\ ~HasUseApiKey(before[i])
         /\ Eligible(before[i])
         /\ ~HasOverride(before[i])
         /\ HasMapping(before[i]))
        => /\ resolved[i] = API_KEY_MAPPING[PairOf(before[i])]
           /\ DeclaredValues(files[i].content)
                 \subseteq {API_KEY_MAPPING[PairOf(before[i])]}

C3_Witness ==
    \E i \in FileIds :
        /\ Visited(i)
        /\ ~HasUseApiKey(before[i])
        /\ Eligible(before[i])
        /\ record_id_match(before[i]) # 0
        /\ ~HasOverride(before[i])
        /\ HasMapping(before[i])
        /\ DeclaredValues(files[i].content)
              = {API_KEY_MAPPING[PairOf(before[i])]}

\* C4: a candidate that is skipped (it already contains use_api_key, misses
\* provider or contentType, or has neither override nor mapping) is not
\* written, keeps its content, and is counted as skipped, not as updated.
C4_SkipLeavesFile ==
    LET skipped == { i \in FileIds : Visited(i) /\ SkipCase(before[i]) }
        others == { i \in FileIds : Visited(i) /\ ~SkipCase(before[i]) }
    IN  /\ \A i \in skipped : writes[i] = 0 /\ files[i].content = before[i]
        /\ skipped_count = Cardinality(skipped)
        /\ updated_count = Cardinality(others)

C4_Witness ==
    /\ \E i \in FileIds :
          Visited(i) /\ UnresolvedCase(before[i])
          /\ \E j \in 1..Len(before[i]) : before[i][j] = CallLine("contentType")
    /\ skipped_count > 0

\* C5: the missing-mapping warning is printed exactly for the files that have
\* provider and contentType but neither override nor mapping, and it names
\* the extracted pair; no other file causes a warning.
C5_WarningExactlyForUnresolved ==
    \A i \in FileIds :
        IF Visited(i) /\ UnresolvedCase(before[i])
        THEN WarningsOf(i) =
                <<[kind |-> "warning", file |-> i,
                   a |-> ProviderOf(before[i]), b |-> ContentTypeOf(before[i])]>>
        ELSE WarningsOf(i) = <<>>

C5_Witness ==
    /\ pc = "done"
    /\ \E i \in FileIds :
          /\ Visited(i) /\ UnresolvedCase(before[i])
          /\ WarningsOf(i) # <<>>
    /\ \E i \in FileIds : Visited(i) /\ ~Eligible(before[i])
                          /\ ~HasUseApiKey(before[i])

\* C6: the text written for a file that received the annotation is the input
\* with one use_api_key line added right after a contentType declaration and
\* the MODEL_CONFIG.contentType) calls rewritten, and nothing else changed.
C6_MinimalDiff ==
    \A i \in FileIds :
        (/\ Visited(i)
         /\ outcome[i] = "Annotated"
         /\ HasDeclaration(files[i].content)) =>
            \E p \in 1..Len(before[i]) :
                /\ before[i][p].k = "contentType"
                /\ files[i].content =
                      UpdateCalls(InsertAt(before[i], p,
                                           UseApiKeyLine(resolved[i])))

C8_UpdatedCarriesKey ==
    \A i \in FileIds :
        (Visited(i) /\ outcome[i] = "Annotated") =>
            /\ \E j \in 1..Len(files[i].content) :
                  files[i].content[j] = UseApiKeyLine(resolved[i])
            /\ HasUseApiKey(files[i].content)

\* C9: a file is skipped as already annotated exactly when it has a
\* use_api_key field declaration; a mention of use_api_key: in a comment does
\* not stop a file with a resolvable mapping from being annotated.
C9_DeclarationOnly ==
    \A i \in FileIds :
        Visited(i) =>
            /\ outcome[i] = "AlreadyAnnotated" <=> HasDeclaration(before[i])
            /\ (/\ ~HasDeclaration(before[i])
                /\ Eligible(before[i])
                /\ HasOverride(before[i]) \/ HasMapping(before[i]))
               => outcome[i] = "Annotated"

\* C10: every candidate is processed at most once; when main() has finished,
\* each candidate has been processed once and has one of the four outcomes,
\* updated_count is the number of Annotated files, skipped_count the number
\* of the others, their sum the number of candidates, and the other files
\* are neither processed, counted nor modified.
C10_OutcomeAccounting ==
    LET candidates == { i \in FileIds : IsCandidate(files[i].name) }
        annotated == { i \in candidates : outcome[i] = "Annotated" }
        skipped == { i \in candidates : outcome[i] \in
                        {"AlreadyAnnotated", "Ineligible", "Unresolved"} }
    IN  /\ \A i \in FileIds : visits[i] <= 1
        /\ \A i \in FileIds \ candidates :
              /\ visits[i] = 0 /\ writes[i] = 0 /\ outcome[i] = "none"
              /\ files[i].content = before[i]
        /\ pc = "done" =>
              /\ \A i \in candidates :
                    visits[i] = 1 /\ i \in annotated \cup skipped
              /\ updated_count = Cardinality(annotated)
              /\ skipped_count = Cardinality(skipped)
              /\ updated_count + skipped_count = Cardinality(candidates)

C10_Witness ==
    /\ pc = "done"
    /\ updated_count > 0
    /\ skipped_count > 0
    /\ \E i \in FileIds : files[i].name.stem \in UtilityFiles
                          /\ files[i].content # <<>>

====
